---- MODULE Spec2Model ----
(***************************************************************************)
(* Quizify (src/main.py): a Streamlit script that is re-executed from top  *)
(* to bottom on every widget event.  One action of this module is one such *)
(* script run, triggered by one widget event, including the st.rerun()     *)
(* that a handler may end with.  The one exception is the run that calls   *)
(* the model: it blocks in generate_content, so it is two steps, the click *)
(* that issues the call and the return of the call; in_flight counts the   *)
(* calls issued and not yet returned.                                      *)
(*                                                                         *)
(* st.session_state holds mcq_df, current_index, saved_answers and         *)
(* selected_level; the text input keeps topic.  The remaining variables    *)
(* record what the last run did and put on the page (event, arg, response, *)
(* model_calls, out, report, controls); they are rewritten by every run.   *)
(* controls tells whether the run left the question's buttons on the page. *)
(***************************************************************************)
EXTENDS FiniteSets, Integers, Sequences, TLC

VARIABLES mcq_df, current_index, saved_answers, selected_level, topic,
          event, arg, response, model_calls, out, report, controls, in_flight

vars == <<mcq_df, current_index, saved_answers, selected_level, topic,
          event, arg, response, model_calls, out, report, controls, in_flight>>

session == <<mcq_df, current_index, saved_answers>>

(***************************************************************************)
(* Bounds of the model.                                                    *)
(***************************************************************************)
\* longest list of items a model response carries
MaxLen == 2

(***************************************************************************)
(* Values.                                                                 *)
(***************************************************************************)
\* Python's None for st.session_state.mcq_df and for the parser's result
None == [none |-> TRUE]

\* st.session_state.selected_level before any difficulty button is clicked
NoLevel == "None"

difficulty_levels == {"Beginner", "Intermediate", "Advanced"}

\* contents of the topic text input: empty, or some text
Topics == {"", "python"}

\* the number of questions the prompt demands
RequiredCount == 10

\* the label shown in place of a blank option
Placeholder == "Option not available"

\* the keys the prompt asks for in every record
RecordColumns == {"question", "options", "answer", "language"}

Question(opts, ans) ==
    [question |-> "q", options |-> opts, answer |-> ans, language |-> "false"]

\* records the model may return: a well-formed one, one whose correct answer
\* is a blank option, one whose answer is none of its options
RecordItems ==
    { Question(<<"A", "B">>, "A"),
      Question(<<"A", " ">>, " "),
      Question(<<"A", "B">>, "C") }

\* the positions an option button can have
OptionPositions == UNION { DOMAIN it.options : it \in RecordItems }

\* a JSON list of scalars, e.g. [1, 2]: pandas puts them in a column named 0
ScalarItems == { [c \in {"0"} |-> "1"] }

SeqsUpTo(S, n) == UNION { [1..k -> S] : k \in 0..n }

\* no call was made in the run
NoResponse == [kind |-> "none", items |-> <<>>]

\* what model.generate_content may come back with
Responses ==
    { [kind |-> k, items |-> <<>>] :
        k \in {"network_error", "non_json", "json_scalar"} }
    \cup { [kind |-> "json_list", items |-> s] : s \in SeqsUpTo(RecordItems, MaxLen) }
    \cup { [kind |-> "json_list", items |-> s] :
             s \in SeqsUpTo(ScalarItems, MaxLen) \ {<<>>} }

(***************************************************************************)
(* pandas: DataFrame construction, .empty, len, .iloc                      *)
(***************************************************************************)
DataFrame(items) ==
    [columns |-> UNION { DOMAIN items[k] : k \in 1..Len(items) }, rows |-> items]

empty(df) == Len(df.rows) = 0

len(df) == Len(df.rows)

\* positions and index labels are 0-based
iloc(df, i) == df.rows[i + 1]

(***************************************************************************)
(* generate_question_bank: the call, the parse, the except clause          *)
(***************************************************************************)
Raise == [raised |-> TRUE, value |-> None]

Return(v) == [raised |-> FALSE, value |-> v]

generate_question_bank(resp) ==
    CASE resp.kind = "network_error" -> Raise
      [] resp.kind = "non_json"      -> Return(None)
      [] resp.kind = "json_scalar"   -> Raise
      [] OTHER                       -> Return(DataFrame(resp.items))

(***************************************************************************)
(* display_mcq                                                             *)
(***************************************************************************)
\* str.strip() on the option strings of the model
strip(s) == IF s \in {"", " "} THEN "" ELSE s

\* the option list as rebuilt for display: blank options become the placeholder
display_options(options) ==
    [k \in 1..Len(options) |->
        IF strip(options[k]) # "" THEN options[k] ELSE Placeholder]

\* the script calls display_mcq only when a bank is present
display_called(df) == df # None

\* display_mcq returns early with a warning on an empty frame
display_warns(df) == display_called(df) /\ empty(df)

\* .iloc[index] raises IndexError out of range; row["question"] and
\* row["language"] raise KeyError when the frame has no such column
display_raises(df, index) ==
    /\ display_called(df)
    /\ ~empty(df)
    /\ \/ index < 0
       \/ index >= len(df)
       \/ ~({"question", "language"} \subseteq df.columns)

\* the option, Reset, Save and navigation controls are on the page
controls_rendered(df, index) ==
    display_called(df) /\ ~empty(df) /\ ~display_raises(df, index)

\* what display_mcq puts on the page besides the question
display_out(df, index) ==
    IF display_warns(df) THEN {"warning_display"}
    ELSE IF display_raises(df, index) THEN {"exception"}
    ELSE {}

\* row.get("options", [])
row_options(df, index) ==
    IF "options" \in df.columns THEN iloc(df, index).options ELSE <<>>

\* st.session_state.saved_answers[index] = option
select_mutant_drop(sa, index, option) ==
    [i \in {index} |-> option]

select(sa, index, option) ==
    [i \in DOMAIN sa \cup {index} |-> IF i = index THEN option ELSE sa[i]]

\* if index in saved_answers: del saved_answers[index]
reset_mutant_clear_all(sa, index) == << >>

reset(sa, index) ==
    [i \in DOMAIN sa \ {index} |-> sa[i]]

\* the Save Answer handler: pass
save_mutant_as_reset(sa, index) ==
    [i \in DOMAIN sa \ {index} |-> sa[i]]

save(sa, index) == sa

\* the Previous button exists only when current_index > 0
previous_enabled_mutant_always(index) == TRUE

previous_enabled(index) == index > 0

\* the Next button exists only when current_index < len(mcq_df) - 1
next_enabled_mutant_offbyone(index, df) == index < len(df)

next_enabled(index, df) == index < len(df) - 1

(***************************************************************************)
(* submit_test                                                             *)
(***************************************************************************)
\* if mcq_df is None or mcq_df.empty: warning, return
submit_warns(df) == df = None \/ empty(df)

\* sum(1 for i, row in mcq_df.iterrows()
\*     if i in saved_answers and saved_answers[i] == row["answer"])
RECURSIVE correct_count_from(_, _, _)
correct_count_from(df, sa, i) ==
    IF i >= len(df) THEN 0
    ELSE (IF i \in DOMAIN sa /\ sa[i] = iloc(df, i).answer THEN 1 ELSE 0)
         + correct_count_from(df, sa, i + 1)

correct_count_mutant_unanswered(df, sa) ==
    len(df) - Cardinality({i \in DOMAIN sa : i < len(df) /\ sa[i] # iloc(df, i).answer})

correct_count_mutant_answered(df, sa) ==
    Cardinality({i \in DOMAIN sa : i < len(df)})

correct_count(df, sa) == correct_count_from(df, sa, 0)

\* for i, row in mcq_df.iterrows():
\*     if i in saved_answers and saved_answers[i] != row["answer"]: show it
RECURSIVE incorrect_from(_, _, _)
incorrect_from(df, sa, i) ==
    IF i >= len(df) THEN <<>>
    ELSE (IF i \in DOMAIN sa /\ sa[i] # iloc(df, i).answer
          THEN << [index |-> i, given |-> sa[i], correct |-> iloc(df, i).answer] >>
          ELSE <<>>)
         \o incorrect_from(df, sa, i + 1)

RECURSIVE incorrect_mutant_unanswered_from(_, _, _)
incorrect_mutant_unanswered_from(df, sa, i) ==
    IF i >= len(df) THEN <<>>
    ELSE (IF i \notin DOMAIN sa
          THEN << [index |-> i, given |-> "", correct |-> iloc(df, i).answer] >>
          ELSE IF sa[i] # iloc(df, i).answer
          THEN << [index |-> i, given |-> sa[i], correct |-> iloc(df, i).answer] >>
          ELSE <<>>)
         \o incorrect_mutant_unanswered_from(df, sa, i + 1)

incorrect_mutant_unanswered(df, sa) == incorrect_mutant_unanswered_from(df, sa, 0)

incorrect_answers(df, sa) == incorrect_from(df, sa, 0)

\* the score line and the review list of a scoring submit
NoReport == [scored |-> FALSE, score |-> 0, total |-> 0, incorrect |-> <<>>]

\* session state as submit_test leaves it after scoring
submit_clear_mutant_keep_answers(df, index, sa) ==
    [mcq_df |-> None, current_index |-> 0, saved_answers |-> sa]

submit_clear(df, index, sa) ==
    [mcq_df |-> None, current_index |-> 0, saved_answers |-> << >>]

(***************************************************************************)
(* The Generate MCQs handler                                               *)
(***************************************************************************)
\* if topic and st.session_state.selected_level
generate_accepted_mutant_or(t, level) == t # "" \/ level # NoLevel

generate_accepted(t, level) == t # "" /\ level # NoLevel

\* if mcq_df is not None and not mcq_df.empty
generate_installs_mutant_any(r) == ~r.raised

generate_installs_mutant_empty(r) == ~r.raised /\ r.value # None

generate_installs(r) == ~r.raised /\ r.value # None /\ ~empty(r.value)

\* session state as the handler leaves it when it installs the new frame
generate_install_mutant_keep_index(df, index, sa) ==
    [mcq_df |-> df, current_index |-> index, saved_answers |-> << >>]

generate_install_mutant_keep_answers(df, index, sa) ==
    [mcq_df |-> df, current_index |-> 0, saved_answers |-> sa]

generate_install(df, index, sa) ==
    [mcq_df |-> df, current_index |-> 0, saved_answers |-> << >>]

\* the call of line 187 is synchronous: the script run is blocked in it, and
\* the next widget event is handled only after it has returned or raised
handler_idle_mutant_reentrant(n) == TRUE

handler_idle(n) == n = 0

(***************************************************************************)
(* submit_test as a whole: the page output, the report and the session     *)
(* state it leaves.  The locals mcq_df and saved_answers are bound before  *)
(* the clear, so the score line and the review list read the old values.   *)
(***************************************************************************)
submit_test_mutant_clear_in_place(df, index, sa) ==
    IF submit_warns(df)
    THEN [out |-> {"warning_submit"},
          report |-> NoReport,
          state |-> [mcq_df |-> df, current_index |-> index, saved_answers |-> sa]]
    ELSE [out |-> {"success_submit"},
          report |-> [scored |-> TRUE,
                      score |-> correct_count(df, sa),
                      total |-> len(df),
                      incorrect |-> incorrect_answers(df, << >>)],
          state |-> submit_clear(df, index, sa)]

submit_test_mutant_no_guard(df, index, sa) ==
    IF df = None
    THEN [out |-> {"success_submit"},
          report |-> [scored |-> TRUE, score |-> 0, total |-> 0, incorrect |-> <<>>],
          state |-> submit_clear(df, index, sa)]
    ELSE [out |-> {"success_submit"},
          report |-> [scored |-> TRUE,
                      score |-> correct_count(df, sa),
                      total |-> len(df),
                      incorrect |-> incorrect_answers(df, sa)],
          state |-> submit_clear(df, index, sa)]

submit_test(df, index, sa) ==
    IF submit_warns(df)
    THEN [out |-> {"warning_submit"},
          report |-> NoReport,
          state |-> [mcq_df |-> df, current_index |-> index, saved_answers |-> sa]]
    ELSE [out |-> {"success_submit"},
          report |-> [scored |-> TRUE,
                      score |-> correct_count(df, sa),
                      total |-> len(df),
                      incorrect |-> incorrect_answers(df, sa)],
          state |-> submit_clear(df, index, sa)]

(***************************************************************************)
(* State after the first script run: lines 15-22, nothing clicked.         *)
(***************************************************************************)
Init ==
    /\ mcq_df = None
    /\ current_index = 0
    /\ saved_answers = << >>
    /\ selected_level = NoLevel
    /\ topic = ""
    /\ event = "start"
    /\ arg = 0
    /\ response = NoResponse
    /\ model_calls = 0
    /\ out = {}
    /\ report = NoReport
    /\ controls = FALSE
    /\ in_flight = 0

\* what a run records about itself
Ran(ev, a, resp, calls, o, rep) ==
    /\ event' = ev
    /\ arg' = a
    /\ response' = resp
    /\ model_calls' = calls
    /\ out' = o
    /\ report' = rep

(***************************************************************************)
(* One action per widget event.                                            *)
(***************************************************************************)
\* the user edits the topic text input; no button is clicked in the run
EnterTopic(t) ==
    /\ handler_idle(in_flight)
    /\ t # topic
    /\ topic' = t
    /\ controls' = controls_rendered(mcq_df, current_index)
    /\ UNCHANGED <<session, selected_level, in_flight>>
    /\ Ran("topic", 0, NoResponse, 0, display_out(mcq_df, current_index), NoReport)

\* a difficulty button
ClickLevel(diff) ==
    /\ handler_idle(in_flight)
    /\ selected_level' = diff
    /\ controls' = controls_rendered(mcq_df, current_index)
    /\ UNCHANGED <<session, topic, in_flight>>
    /\ Ran("level", 0, NoResponse, 0, display_out(mcq_df, current_index), NoReport)

\* the Generate MCQs button: the warning branch, or the run up to the point
\* where it blocks in model.generate_content
ClickGenerate ==
    /\ handler_idle(in_flight)
    /\ UNCHANGED <<session, selected_level, topic>>
    /\ IF generate_accepted(topic, selected_level)
       THEN /\ in_flight' = in_flight + 1
            /\ controls' = controls
            /\ Ran("calling", 0, NoResponse, 1, {"generating"}, NoReport)
       ELSE /\ in_flight' = in_flight
            /\ controls' = controls_rendered(mcq_df, current_index)
            /\ Ran("generate", 0, NoResponse, 0,
                   {"warning_generate"} \cup display_out(mcq_df, current_index),
                   NoReport)

\* the call returns resp or raises, and the handler runs to its end
GenerateReturns(resp) ==
    /\ in_flight > 0
    /\ in_flight' = in_flight - 1
    /\ UNCHANGED <<selected_level, topic>>
    /\ LET r == generate_question_bank(resp) IN
       IF r.raised
       THEN /\ UNCHANGED session
            /\ controls' = FALSE
            /\ Ran("generate", 0, resp, 1, {"generating", "exception"}, NoReport)
       ELSE IF generate_installs(r)
       THEN LET new == generate_install(r.value, current_index, saved_answers) IN
            /\ mcq_df' = new.mcq_df
            /\ current_index' = new.current_index
            /\ saved_answers' = new.saved_answers
            /\ controls' = controls_rendered(new.mcq_df, new.current_index)
            /\ Ran("generate", 0, resp, 1,
                   display_out(new.mcq_df, new.current_index), NoReport)
       ELSE /\ UNCHANGED session
            /\ controls' = controls_rendered(mcq_df, current_index)
            /\ Ran("generate", 0, resp, 1,
                   {"generating", "error_generate"}
                       \cup display_out(mcq_df, current_index),
                   NoReport)

\* the k-th option button of the question on the page
ClickOption(k) ==
    /\ handler_idle(in_flight)
    /\ controls
    /\ controls_rendered(mcq_df, current_index)
    /\ k \in 1..Len(row_options(mcq_df, current_index))
    /\ saved_answers' =
          select(saved_answers, current_index,
                 display_options(row_options(mcq_df, current_index))[k])
    /\ controls' = TRUE
    /\ UNCHANGED <<mcq_df, current_index, selected_level, topic, in_flight>>
    /\ Ran("select", k, NoResponse, 0, {}, NoReport)

ClickReset ==
    /\ handler_idle(in_flight)
    /\ controls
    /\ controls_rendered(mcq_df, current_index)
    /\ saved_answers' = reset(saved_answers, current_index)
    /\ controls' = TRUE
    /\ UNCHANGED <<mcq_df, current_index, selected_level, topic, in_flight>>
    /\ Ran("reset", 0, NoResponse, 0, {}, NoReport)

ClickSave ==
    /\ handler_idle(in_flight)
    /\ controls
    /\ controls_rendered(mcq_df, current_index)
    /\ saved_answers' = save(saved_answers, current_index)
    /\ controls' = TRUE
    /\ UNCHANGED <<mcq_df, current_index, selected_level, topic, in_flight>>
    /\ Ran("save", 0, NoResponse, 0, {}, NoReport)

\* the user asks for the previous question; the button is there only when
\* previous_enabled, and its handler ends with st.rerun()
ClickPrevious ==
    /\ handler_idle(in_flight)
    /\ controls
    /\ controls_rendered(mcq_df, current_index)
    /\ current_index' = IF previous_enabled(current_index)
                        THEN current_index - 1 ELSE current_index
    /\ controls' = controls_rendered(mcq_df, current_index')
    /\ UNCHANGED <<mcq_df, saved_answers, selected_level, topic, in_flight>>
    /\ Ran("previous", 0, NoResponse, 0, display_out(mcq_df, current_index'), NoReport)

ClickNext ==
    /\ handler_idle(in_flight)
    /\ controls
    /\ controls_rendered(mcq_df, current_index)
    /\ current_index' = IF next_enabled(current_index, mcq_df)
                        THEN current_index + 1 ELSE current_index
    /\ controls' = controls_rendered(mcq_df, current_index')
    /\ UNCHANGED <<mcq_df, saved_answers, selected_level, topic, in_flight>>
    /\ Ran("next", 0, NoResponse, 0, display_out(mcq_df, current_index'), NoReport)

\* a click on a question control that the last run left on the page although
\* the session state no longer has the question (the run went on to clear it):
\* the rerun does not call display_mcq, so no handler of it runs
ClickStale ==
    /\ handler_idle(in_flight)
    /\ controls
    /\ ~controls_rendered(mcq_df, current_index)
    /\ controls' = FALSE
    /\ UNCHANGED <<session, selected_level, topic, in_flight>>
    /\ Ran("stale", 0, NoResponse, 0, display_out(mcq_df, current_index), NoReport)

\* the Submit Test button: it is on the page if the last run got to the end
\* of the script, and the rerun reaches it only if display_mcq, which runs
\* first, does not raise
ClickSubmit ==
    /\ handler_idle(in_flight)
    /\ "exception" \notin out
    /\ ~display_raises(mcq_df, current_index)
    /\ LET res == submit_test(mcq_df, current_index, saved_answers) IN
         /\ mcq_df' = res.state.mcq_df
         /\ current_index' = res.state.current_index
         /\ saved_answers' = res.state.saved_answers
         /\ Ran("submit", 0, NoResponse, 0,
                display_out(mcq_df, current_index) \cup res.out, res.report)
    /\ controls' = controls_rendered(mcq_df, current_index)
    /\ UNCHANGED <<selected_level, topic, in_flight>>

Next ==
    \/ \E t \in Topics : EnterTopic(t)
    \/ \E diff \in difficulty_levels : ClickLevel(diff)
    \/ ClickGenerate
    \/ \E resp \in Responses : GenerateReturns(resp)
    \/ \E k \in OptionPositions : ClickOption(k)
    \/ ClickReset
    \/ ClickSave
    \/ ClickPrevious
    \/ ClickNext
    \/ ClickStale
    \/ ClickSubmit

Spec == Init /\ [][Next]_vars

(***************************************************************************)
(* Properties.                                                             *)
(***************************************************************************)
\* the run that ends in the primed state was a click on Submit Test
SubmitStep == event' = "submit"

\* ... with a bank loaded when it started
ScoringSubmitStep == SubmitStep /\ mcq_df # None

\* the valid indices of the loaded bank
BankIndices == 0..(Len(mcq_df.rows) - 1)

\* C1: whenever a bank is loaded, currentIndex lies in [0, len(bank)-1];
\* Previous at index 0 and Next at the last index leave currentIndex unchanged.
C1_IndexInRange ==
    /\ [](mcq_df # None => current_index \in 0..(Len(mcq_df.rows) - 1))
    /\ [][(event' = "previous" /\ current_index = 0)
              => current_index' = current_index]_vars
    /\ [][(event' = "next" /\ current_index = Len(mcq_df.rows) - 1)
              => current_index' = current_index]_vars

C1_Witness ==
    /\ mcq_df # None
    /\ event = "next"
    /\ current_index > 0
    /\ current_index = Len(mcq_df.rows) - 1

\* C2: a submit with a bank loaded leaves the bank absent, currentIndex 0 and
\* savedAnswers empty; a submit clicked right after it takes the warning path
\* and scores nothing.
C2_SubmitResets ==
    /\ [][ScoringSubmitStep
              => /\ mcq_df' = None
                 /\ current_index' = 0
                 /\ saved_answers' = << >>]_vars
    /\ [][(event = "submit" /\ report.scored /\ SubmitStep)
              => /\ "warning_submit" \in out'
                 /\ ~report'.scored
                 /\ "success_submit" \notin out']_vars

C2_Witness ==
    /\ event = "submit"
    /\ report.scored
    /\ report.total >= 2
    /\ mcq_df = None /\ current_index = 0 /\ saved_answers = << >>

\* the responses for which a generation attempt fails: the call raises, the
\* text is not JSON, the JSON is not a list, or the list is empty
FailedResponse(resp) ==
    \/ resp.kind \in {"network_error", "non_json", "json_scalar"}
    \/ resp.kind = "json_list" /\ resp.items = << >>

\* C3: a failed generation attempt leaves bank, currentIndex and savedAnswers
\* exactly as they were; no None or empty bank replaces a loaded one.
C3_FailedGenerationKeepsState ==
    /\ [][(event' = "generate" /\ FailedResponse(response'))
              => /\ mcq_df' = mcq_df
                 /\ current_index' = current_index
                 /\ saved_answers' = saved_answers]_vars
    /\ [](mcq_df # None => Len(mcq_df.rows) > 0)

C3_Witness ==
    /\ event = "generate"
    /\ FailedResponse(response)
    /\ mcq_df # None
    /\ current_index > 0
    /\ saved_answers # << >>

\* the shape the prompt demands of a bank
ValidBank(df) ==
    /\ RecordColumns \subseteq df.columns
    /\ Len(df.rows) = RequiredCount
    /\ \A k \in 1..Len(df.rows) :
          \E j \in 1..Len(df.rows[k].options) :
              df.rows[k].options[j] = df.rows[k].answer

\* C4: every installed bank has exactly 10 questions, each with its correct
\* answer among its own options; other model output is never installed.
C4_InstalledBankValid == mcq_df # None => ValidBank(mcq_df)

\* C5: on a submit with a bank loaded, total is the length of the bank and
\* score is the number of indices whose saved answer exists and equals the
\* correct answer exactly.
C5_Score ==
    [][ScoringSubmitStep
          => /\ report'.scored
             /\ report'.total = Len(mcq_df.rows)
             /\ report'.score =
                   Cardinality({ i \in BankIndices :
                                   /\ i \in DOMAIN saved_answers
                                   /\ saved_answers[i] = mcq_df.rows[i + 1].answer })]_vars

C5_Witness ==
    /\ event = "submit"
    /\ report.scored
    /\ report.score = 1
    /\ report.total = 2

\* C6: on a submit with a bank loaded, the incorrect list holds, in ascending
\* index order, exactly the indices with a saved answer that differs from the
\* correct one, each with the given and the correct answer.
C6_IncorrectList ==
    [][ScoringSubmitStep
          => LET inc == report'.incorrect
                 wrong == { i \in BankIndices :
                              /\ i \in DOMAIN saved_answers
                              /\ saved_answers[i] # mcq_df.rows[i + 1].answer }
             IN /\ { inc[k].index : k \in 1..Len(inc) } = wrong
                /\ \A j, k \in 1..Len(inc) : j < k => inc[j].index < inc[k].index
                /\ \A k \in 1..Len(inc) :
                      /\ inc[k].given = saved_answers[inc[k].index]
                      /\ inc[k].correct = mcq_df.rows[inc[k].index + 1].answer]_vars

C6_Witness ==
    /\ event = "submit"
    /\ report.scored
    /\ Len(report.incorrect) = 1
    /\ report.incorrect[1].index = 1
    /\ report.score = 0

\* C7: Generate with an empty topic or no difficulty selected warns, makes no
\* model call and changes nothing in the session state.
C7_GenerateRejected ==
    [][(event' = "generate" /\ (topic = "" \/ selected_level = NoLevel))
          => /\ "warning_generate" \in out'
             /\ model_calls' = 0
             /\ response' = NoResponse
             /\ mcq_df' = mcq_df
             /\ current_index' = current_index
             /\ saved_answers' = saved_answers]_vars

C7_Witness ==
    /\ event = "generate"
    /\ "warning_generate" \in out
    /\ topic # ""
    /\ selected_level = NoLevel

\* the label of the k-th option button of the question on the page
ButtonLabel(k) ==
    LET o == mcq_df.rows[current_index + 1].options[k]
    IN IF o \in {"", " "} THEN Placeholder ELSE o

\* C8: selecting an option sets savedAnswers[currentIndex] to the clicked
\* button's option and changes no other entry, nor the bank, nor currentIndex;
\* selecting it again changes nothing, selecting another option overwrites.
C8_Select ==
    /\ [][event' = "select"
              => /\ DOMAIN saved_answers' = DOMAIN saved_answers \cup {current_index}
                 /\ saved_answers'[current_index] = ButtonLabel(arg')
                 /\ \A i \in DOMAIN saved_answers \ {current_index} :
                       saved_answers'[i] = saved_answers[i]
                 /\ mcq_df' = mcq_df
                 /\ current_index' = current_index]_vars
    /\ [][(event = "select" /\ event' = "select" /\ arg' = arg)
              => saved_answers' = saved_answers]_vars

C8_Witness ==
    /\ event = "select"
    /\ current_index = 0
    /\ DOMAIN saved_answers = {0, 1}
    /\ saved_answers[0] = "B"

\* C9: the value recorded by a selection is the option string stored in the
\* bank, also when the button shows the placeholder for a blank option.
C9_SelectStoresBankOption ==
    event = "select"
        => saved_answers[current_index] = mcq_df.rows[current_index + 1].options[arg]

\* C10: submit with no bank loaded warns, scores nothing, raises nothing and
\* leaves the session state unchanged.
C10_SubmitWithoutBank ==
    [][(SubmitStep /\ mcq_df = None)
          => /\ "warning_submit" \in out'
             /\ "exception" \notin out'
             /\ "success_submit" \notin out'
             /\ report' = NoReport
             /\ mcq_df' = None
             /\ current_index' = current_index
             /\ saved_answers' = saved_answers]_vars

C10_Witness ==
    /\ event = "submit"
    /\ "warning_submit" \in out
    /\ topic # ""
    /\ selected_level # NoLevel

\* C11: every generation failure ends in the user-facing error message and
\* none escapes the handler as an uncaught exception.
C11_FailureShowsError ==
    (event = "generate" /\ FailedResponse(response))
        => ("error_generate" \in out /\ "exception" \notin out)

InstallStep ==
    /\ event' = "generate"
    /\ response'.kind = "json_list"
    /\ response'.items # << >>

\* C13: a successful generation makes the parsed list the bank, sets
\* currentIndex to 0 and empties savedAnswers, whatever they were before.
C13_GenerationReplaces ==
    [][InstallStep
          => /\ mcq_df' # None
             /\ mcq_df'.rows = response'.items
             /\ current_index' = 0
             /\ saved_answers' = << >>]_vars

C13_Witness ==
    /\ event = "generate"
    /\ response.kind = "json_list"
    /\ mcq_df # None
    /\ Len(mcq_df.rows) = 1
    /\ mcq_df.rows = response.items
    /\ current_index = 0
    /\ saved_answers = << >>

\* the indices answered correctly, resp. wrongly, in the unprimed state
CorrectSet ==
    { i \in BankIndices :
        i \in DOMAIN saved_answers /\ saved_answers[i] = mcq_df.rows[i + 1].answer }

WrongSet ==
    { i \in BankIndices :
        i \in DOMAIN saved_answers /\ saved_answers[i] # mcq_df.rows[i + 1].answer }

\* C14: the step that clears the session state reports total, score and
\* incorrect entries of the bank and answers as they were before the clear.
C14_ReportFromPreClearState ==
    [][ScoringSubmitStep
          => /\ mcq_df' = None /\ saved_answers' = << >>
             /\ report'.total = Len(mcq_df.rows) /\ report'.total > 0
             /\ (CorrectSet # {} => report'.score > 0)
             /\ (WrongSet # {} => report'.incorrect # << >>)
             /\ \A k \in 1..Len(report'.incorrect) :
                   LET e == report'.incorrect[k]
                   IN e.index \in DOMAIN saved_answers
                      /\ e.given = saved_answers[e.index]]_vars

C14_Witness ==
    /\ event = "submit"
    /\ mcq_df = None
    /\ saved_answers = << >>
    /\ report.scored
    /\ report.score >= 1
    /\ Len(report.incorrect) >= 1

\* C15: Reset removes savedAnswers[currentIndex] if it exists and otherwise
\* changes nothing and raises nothing; other entries, the bank and
\* currentIndex are unchanged.
C15_Reset ==
    [][event' = "reset"
          => /\ DOMAIN saved_answers' = DOMAIN saved_answers \ {current_index}
             /\ \A i \in DOMAIN saved_answers' : saved_answers'[i] = saved_answers[i]
             /\ (current_index \notin DOMAIN saved_answers
                    => saved_answers' = saved_answers)
             /\ "exception" \notin out'
             /\ mcq_df' = mcq_df
             /\ current_index' = current_index]_vars

C15_Witness ==
    /\ event = "reset"
    /\ current_index = 0
    /\ DOMAIN saved_answers = {1}

\* C16: Previous moves down by exactly 1 iff currentIndex > 0, Next moves up by
\* exactly 1 iff currentIndex < len(bank)-1; neither wraps around and neither
\* touches savedAnswers.
C16_Navigation ==
    /\ [][event' = "previous"
              => /\ current_index' =
                       IF current_index > 0 THEN current_index - 1 ELSE current_index
                 /\ current_index' >= 0
                 /\ saved_answers' = saved_answers]_vars
    /\ [][event' = "next"
              => /\ current_index' =
                       IF current_index < Len(mcq_df.rows) - 1
                       THEN current_index + 1 ELSE current_index
                 /\ current_index' <= Len(mcq_df.rows) - 1
                 /\ saved_answers' = saved_answers]_vars

C16_Witness ==
    /\ event = "previous"
    /\ current_index = 0
    /\ Len(mcq_df.rows) = 2
    /\ DOMAIN saved_answers = {0, 1}

\* C17: the bank changes only by a successful generation or a scoring submit.
C17_BankImmutable ==
    [][mcq_df' # mcq_df
          => \/ InstallStep /\ mcq_df' = DataFrame(response'.items)
             \/ ScoringSubmitStep /\ mcq_df' = None]_vars

C17_Witness ==
    /\ event = "generate"
    /\ response.kind = "non_json"
    /\ mcq_df # None
    /\ Len(mcq_df.rows) = 2
    /\ "error_generate" \in out

\* C18: Save changes nothing, and a selection is in savedAnswers as soon as the
\* option is clicked.
C18_SaveIsNoOp ==
    /\ [][event' = "save"
              => /\ mcq_df' = mcq_df
                 /\ current_index' = current_index
                 /\ saved_answers' = saved_answers]_vars
    /\ [](event = "select" => current_index \in DOMAIN saved_answers)

C18_Witness ==
    /\ event = "save"
    /\ current_index \in DOMAIN saved_answers

\* C19: the keys of savedAnswers are valid indices of the loaded bank, and
\* savedAnswers is empty when no bank is loaded, also after a click on a
\* control left over from the render before a submit.
C19_AnswerKeysValid ==
    /\ mcq_df = None => saved_answers = << >>
    /\ mcq_df # None => DOMAIN saved_answers \subseteq 0..(Len(mcq_df.rows) - 1)

C19_Witness ==
    /\ event = "stale"
    /\ mcq_df = None
    /\ saved_answers = << >>

\* C20: for a scoring submit, score plus the number of incorrect entries is
\* the number of saved answers, 0 <= score <= total, and no index is both
\* correct and listed as incorrect.
C20_Accounting ==
    [][ScoringSubmitStep
          => /\ report'.score + Len(report'.incorrect)
                   = Cardinality(DOMAIN saved_answers)
             /\ 0 <= report'.score /\ report'.score <= report'.total
             /\ { report'.incorrect[k].index : k \in 1..Len(report'.incorrect) }
                   \cap CorrectSet = {}]_vars

C20_Witness ==
    /\ event = "submit"
    /\ report.scored
    /\ report.score = 1
    /\ Len(report.incorrect) = 1
    /\ report.incorrect[1].index = 0

====
